---- MODULE Spec2Model ----
(***************************************************************************)
(* Model of the virtualAust building viewer.                               *)
(*                                                                         *)
(*   - the procedural geometry generator (the "Building creation" part of  *)
(*     the BuildingScene effect): it appends box outlines to the scene,    *)
(*     layer by layer;                                                     *)
(*   - the placement validator (checkBuildingCollision and the MapSystem   *)
(*     component that calls it).                                           *)
(*                                                                         *)
(* Numbers.  The source computes with JavaScript numbers.  The model       *)
(* computes with exact fixed-point numbers: one length unit is Unit ticks, *)
(* and Unit is chosen so that every product and quotient the source forms  *)
(* on the enumerated configurations is a whole number of ticks.  The two   *)
(* non-finite results a division by zero can produce are kept as the       *)
(* values Infinity / NegInfinity / NaN with the IEEE rules the source      *)
(* relies on.  Rounding of binary floating point is not modelled.          *)
(***************************************************************************)
EXTENDS Integers, Sequences, FiniteSets

VARIABLES
    buildingConfig,     \* the configuration the generator reads
    pc,                 \* position of the generator in the effect body
    floorIndex,         \* loop variable i of the floor loop
    scene,              \* the primitives added to the scene so far, in order
    generated,          \* history: the scenes of the effect runs cleaned up so far
    buildings,          \* MapSystem prop: the placement list
    onCollisionDetected,\* MapSystem prop: TRUE when a callback is supplied
    collidingBuildings, \* result of the last evaluation of MapSystem
    notified,           \* arguments of the callback invocations, in order
    rendered,           \* TRUE once MapSystem has evaluated the current props
    drawn,              \* ground footprints of the BuildingScenes last rendered
    evaluations         \* history: the list and the result of every evaluation

vars == <<buildingConfig, pc, floorIndex, scene, generated, buildings,
          onCollisionDetected, collidingBuildings, notified, rendered, drawn,
          evaluations>>

genVars == <<buildingConfig, pc, floorIndex, scene, generated>>
mapVars == <<buildings, onCollisionDetected, collidingBuildings, notified, rendered,
             drawn, evaluations>>

(***************************************************************************)
(* Bounds of the enumerated inputs.                                        *)
(***************************************************************************)
MaxFloors == 2
MaxWindows == 2
MaxColumns == 4
MaxBuildings == 2
MaxRuns == 2
MaxRenders == 3

(***************************************************************************)
(* Numbers                                                                 *)
(***************************************************************************)
\* ticks per length unit: 1/2000 resolves every decimal factor of the source
\* on centi-unit inputs, 420 every spacing divisor (7, 5, count - 1 <= 6)
Unit == 2000 * 420

\* n hundredths of a unit, in ticks
cu(n) == n * (Unit \div 100)

Infinity == 2 * 1000000000
NegInfinity == 0 - Infinity
NaN == Infinity + 1

isFinite(v) == v \notin {Infinity, NegInfinity, NaN}

Neg(v) ==
    IF v = NaN THEN NaN
    ELSE IF v = Infinity THEN NegInfinity
    ELSE IF v = NegInfinity THEN Infinity
    ELSE 0 - v

\* a + b
Plus(a, b) ==
    IF a = NaN \/ b = NaN THEN NaN
    ELSE IF ~isFinite(a) /\ ~isFinite(b) THEN (IF a = b THEN a ELSE NaN)
    ELSE IF ~isFinite(a) THEN a
    ELSE IF ~isFinite(b) THEN b
    ELSE a + b

\* k * v for a loop counter k (a plain integer, not ticks)
Times(k, v) ==
    IF v = NaN THEN NaN
    ELSE IF ~isFinite(v)
         THEN (IF k = 0 THEN NaN ELSE IF k > 0 THEN v ELSE Neg(v))
    ELSE k * v

\* a / k for a plain integer divisor k; a / 0 is +-Infinity, 0 / 0 is NaN
Quot(a, k) ==
    IF k = 0
    THEN (IF a > 0 THEN Infinity ELSE IF a < 0 THEN NegInfinity ELSE NaN)
    ELSE IF k > 0 THEN a \div k
    ELSE 0 - (a \div (0 - k))

\* v * (num / den) for a decimal literal num/den of the source
Scale(v, num, den) == (v * num) \div den

Half(v) == v \div 2

Abs(v) == IF v = NaN THEN NaN ELSE IF v < 0 THEN 0 - v ELSE v

\* Math.floor(count * 0.75) for a non-negative integer count
FloorThreeQuarters(count) == (count * 3) \div 4

(***************************************************************************)
(* Primitives: new THREE.LineSegments(new THREE.EdgesGeometry(             *)
(* new THREE.BoxGeometry(w, h, d)), black material), position (0, 0, 0).   *)
(* name is the source variable that holds the object; wall and floor say   *)
(* which wall and which iteration of the floor loop created it.            *)
(***************************************************************************)
Black == 0

NoFloor == 0 - 1

LineSegments(name, wall, floor, w, h, d) ==
    [name |-> name, wall |-> wall, floor |-> floor,
     w |-> w, h |-> h, d |-> d, x |-> 0, y |-> 0, z |-> 0, color |-> Black]

SetPosition(p, x, y, z) == [p EXCEPT !.x = x, !.y = y, !.z = z]

\* p.clone(), held by another variable of the source
Clone(p, name, wall) == [p EXCEPT !.name = name, !.wall = wall]

\* for (let j = 0; j < n; j++) body[j]
RECURSIVE ForLoop(_, _, _)
ForLoop(body, j, n) ==
    IF j >= n THEN <<>> ELSE body[j] \o ForLoop(body, j + 1, n)

(***************************************************************************)
(* Configurations                                                          *)
(***************************************************************************)
\* the dimensions of the built-in buildingConfig
BuiltinDims ==
    [width |-> cu(2500), depth |-> cu(1800), floorHeight |-> cu(320),
     windows |-> [width |-> cu(180), height |-> cu(220), spacing |-> cu(380)],
     divider |-> [height |-> cu(25), overhang |-> cu(30)],
     base |-> [width |-> cu(2800), depth |-> cu(2100), height |-> cu(220),
               decorativeLines |-> [enabled |-> TRUE, height |-> cu(18),
                                    overhang |-> cu(20)],
               columns |-> [width |-> cu(90), depth |-> cu(90)]],
     roof |-> [width |-> cu(2125), depth |-> cu(1530), height |-> cu(250),
               trim |-> [height |-> cu(30), overhang |-> cu(25)],
               tower |-> [base |-> [width |-> cu(800), depth |-> cu(800),
                                    height |-> cu(100)],
                          main |-> [width |-> cu(600), depth |-> cu(600),
                                    height |-> cu(400)],
                          top |-> [width |-> cu(700), depth |-> cu(700),
                                   height |-> cu(150)],
                          spire |-> [width |-> cu(200), depth |-> cu(200),
                                     height |-> cu(200)]],
               parapet |-> [height |-> cu(120), thickness |-> cu(15),
                            topTrim |-> [height |-> cu(30),
                                         overhang |-> cu(15)]]]]

\* a second set of positive dimensions, all different from the built-in ones
SmallDims ==
    [width |-> cu(1000), depth |-> cu(600), floorHeight |-> cu(300),
     windows |-> [width |-> cu(100), height |-> cu(200), spacing |-> cu(150)],
     divider |-> [height |-> cu(20), overhang |-> cu(10)],
     base |-> [width |-> cu(1200), depth |-> cu(800), height |-> cu(100),
               decorativeLines |-> [enabled |-> FALSE, height |-> cu(10),
                                    overhang |-> cu(10)],
               columns |-> [width |-> cu(50), depth |-> cu(40)]],
     roof |-> [width |-> cu(800), depth |-> cu(500), height |-> cu(140),
               trim |-> [height |-> cu(50), overhang |-> cu(20)],
               tower |-> [base |-> [width |-> cu(400), depth |-> cu(400),
                                    height |-> cu(60)],
                          main |-> [width |-> cu(300), depth |-> cu(300),
                                    height |-> cu(220)],
                          top |-> [width |-> cu(350), depth |-> cu(350),
                                   height |-> cu(90)],
                          spire |-> [width |-> cu(100), depth |-> cu(100),
                                     height |-> cu(310)]],
               parapet |-> [height |-> cu(80), thickness |-> cu(10),
                            topTrim |-> [height |-> cu(20),
                                         overhang |-> cu(10)]]]]

DimsSet == {BuiltinDims, SmallDims}

\* one element of buildingConfig.floors
FloorConfig(dims, front, side, dividerEnabled) ==
    [windows |-> [width |-> dims.windows.width, height |-> dims.windows.height,
                  spacing |-> dims.windows.spacing,
                  countPerWall |-> [front |-> front, side |-> side]],
     divider |-> [enabled |-> dividerEnabled, height |-> dims.divider.height,
                  overhang |-> dims.divider.overhang],
     decorativeLines |-> TRUE]

FloorConfigs(dims) ==
    { FloorConfig(dims, f, s, e) :
        f \in 1..MaxWindows, s \in 1..MaxWindows, e \in BOOLEAN }

\* a floor configuration that differs from fc in both counts and in the divider
OtherFloor(fc) ==
    [fc EXCEPT !.windows.countPerWall =
                   [front |-> (fc.windows.countPerWall.front % MaxWindows) + 1,
                    side |-> MaxWindows + 1 - fc.windows.countPerWall.side],
               !.divider.enabled = ~fc.divider.enabled]

\* the floor lists enumerated: Array(n).fill(fc), as the built-in configuration
\* is written, and lists whose odd and even floors differ
FloorLists(dims, n) ==
    { [k \in 1..n |-> fc] : fc \in FloorConfigs(dims) }
    \cup { [k \in 1..n |-> IF k % 2 = 1 THEN fc ELSE OtherFloor(fc)] :
             fc \in FloorConfigs(dims) }

\* base.columns: disabled (with the built-in count), or enabled with any count
ColumnOptions ==
    { [enabled |-> FALSE, count |-> 4] }
    \cup { [enabled |-> TRUE, count |-> c] : c \in 0..MaxColumns }

BuildingConfig(dims, numFloors, floors, columns) ==
    [width |-> dims.width, depth |-> dims.depth,
     floorHeight |-> dims.floorHeight, numFloors |-> numFloors,
     floors |-> floors,
     base |-> [width |-> dims.base.width, depth |-> dims.base.depth,
               height |-> dims.base.height,
               decorativeLines |-> dims.base.decorativeLines,
               columns |-> [enabled |-> columns.enabled, count |-> columns.count,
                            width |-> dims.base.columns.width,
                            depth |-> dims.base.columns.depth]],
     roof |-> dims.roof]

\* the built-in configuration as written: 12 equal floors with 5 front and 3
\* side windows and the divider enabled, 4 columns per front row
builtinBuildingConfig ==
    BuildingConfig(BuiltinDims, 12,
                   [k \in 1..12 |-> FloorConfig(BuiltinDims, 5, 3, TRUE)],
                   [enabled |-> TRUE, count |-> 4])

Configs ==
    UNION { { BuildingConfig(dn[1], dn[2], floors, columns) :
                floors \in FloorLists(dn[1], dn[2]), columns \in ColumnOptions } :
            dn \in DimsSet \X (0..MaxFloors) }
    \cup {builtinBuildingConfig}

(***************************************************************************)
(* The generator, layer by layer.  Each operator is the sequence of        *)
(* primitives its block of the effect passes to scene.add, in order.       *)
(***************************************************************************)
\* the literal 1 and 2 subtracted from the base footprint, and the literal
\* thicknesses of the window parts
One == Unit
FrameExtra == Scale(Unit, 2, 10)
FrameDepth == Scale(Unit, 1, 10)
PaneDepth == Scale(Unit, 5, 100)

\* faulty variant: the platform centred one whole height down (the / 2 dropped)
BaseLineY_WholeHeight(cfg) == 0 - cfg.base.height

\* the y coordinates of the base block
BaseLineY(cfg) == Half(0 - cfg.base.height)

MiddleLayerLineY(cfg) == 0

TopTrimLineY(cfg) == Scale(cfg.base.height, 25, 100)

\* baseLine, middleLayerLine, topTrimLine
BaseStack(cfg) ==
    LET base == cfg.base
        baseLine ==
            [LineSegments("baseLine", "", NoFloor,
                          base.width, base.height, base.depth)
                EXCEPT !.y = BaseLineY(cfg)]
        middleLayerLine ==
            [LineSegments("middleLayerLine", "", NoFloor,
                          base.width - One, Scale(base.height, 3, 10),
                          base.depth - One)
                EXCEPT !.y = MiddleLayerLineY(cfg)]
        topTrimLine ==
            [LineSegments("topTrimLine", "", NoFloor,
                          base.width - 2 * One, Scale(base.height, 2, 10),
                          base.depth - 2 * One)
                EXCEPT !.y = TopTrimLineY(cfg)]
    IN  <<baseLine, middleLayerLine, topTrimLine>>

\* the number of columns on a side: the front/back rows (side 0 and 2) take
\* count, the other two rows floor(count * 0.75)
ColumnCount(cfg, side) ==
    IF side % 2 = 0 THEN cfg.base.columns.count
    ELSE FloorThreeQuarters(cfg.base.columns.count)

\* faulty variant: the row length is divided by the count, not by count - 1
ColumnSpacing_ByCount(cfg, side) ==
    LET totalLength == IF side % 2 = 0 THEN cfg.base.width ELSE cfg.base.depth
    IN  Quot(totalLength - cfg.base.columns.width, ColumnCount(cfg, side))

\* the row a column belongs to: the value of the outer loop variable side
ColumnSide(side) == <<"side0", "side1", "side2", "side3">>[side + 1]

ColumnSpacing(cfg, side) ==
    LET totalLength == IF side % 2 = 0 THEN cfg.base.width ELSE cfg.base.depth
    IN  Quot(totalLength - cfg.base.columns.width, ColumnCount(cfg, side) - 1)

\* the body of the inner column loop: columnBase, column, columnTop
ColumnAt(cfg, side, i) ==
    LET base == cfg.base
        width == base.columns.width
        depth == base.columns.depth
        isXAxis == side % 2 = 0
        isPositive == side < 2
        totalLength == IF isXAxis THEN base.width ELSE base.depth
        spacing == ColumnSpacing(cfg, side)
        pos == Plus(Half(0 - totalLength), Times(i, spacing))
        xPos == IF isXAxis THEN pos
                ELSE IF isPositive THEN Half(base.width)
                ELSE Half(0 - base.width)
        zPos == IF isXAxis
                THEN (IF isPositive THEN Half(base.depth) ELSE Half(0 - base.depth))
                ELSE pos
        columnBase ==
            LineSegments("columnBase", ColumnSide(side), NoFloor, Scale(width, 12, 10),
                         Scale(base.height, 2, 10), Scale(depth, 12, 10))
        column ==
            LineSegments("column", ColumnSide(side), NoFloor, width,
                         Scale(base.height, 8, 10), depth)
        columnTop ==
            LineSegments("columnTop", ColumnSide(side), NoFloor, Scale(width, 13, 10),
                         Scale(base.height, 3, 10), Scale(depth, 13, 10))
    IN  << SetPosition(columnBase, xPos, Scale(0 - base.height, 4, 10), zPos),
           SetPosition(column, xPos, Scale(0 - base.height, 1, 10), zPos),
           SetPosition(columnTop, xPos, Scale(base.height, 2, 10), zPos) >>

ColumnRow(cfg, side) ==
    ForLoop([i \in 0..(ColumnCount(cfg, side) - 1) |-> ColumnAt(cfg, side, i)],
            0, ColumnCount(cfg, side))

Columns(cfg) ==
    IF cfg.base.columns.enabled
    THEN ForLoop([side \in 0..3 |-> ColumnRow(cfg, side)], 0, 4)
    ELSE <<>>

\* the four corner blocks
Corners(cfg) ==
    LET base == cfg.base
        cornerSize == Scale(base.columns.width, 15, 10)
        corner(i) ==
            LET xSign == IF i % 2 = 0 THEN 1 ELSE 0 - 1
                zSign == IF i < 2 THEN 1 ELSE 0 - 1
            IN  SetPosition(
                    LineSegments("corner", "", NoFloor, cornerSize,
                                 Scale(base.height, 9, 10), cornerSize),
                    xSign * (Half(base.width) - Half(cornerSize)),
                    Scale(0 - base.height, 5, 100),
                    zSign * (Half(base.depth) - Half(cornerSize)))
    IN  ForLoop([i \in 0..3 |-> <<corner(i)>>], 0, 4)

\* faulty variant: the clone is added without moving it to the opposite wall
CloneAtZ_NotMoved(p, name, wall, z) == Clone(p, name, wall)

\* clone() followed by an assignment to position.z / position.x
CloneAtZ(p, name, wall, z) == [Clone(p, name, wall) EXCEPT !.z = z]

CloneAtX(p, name, wall, x) == [Clone(p, name, wall) EXCEPT !.x = x]

\* the floor body of floor i
FloorBody(cfg, i) ==
    [LineSegments("line", "", i, cfg.width, cfg.floorHeight, cfg.depth)
        EXCEPT !.y = i * cfg.floorHeight]

\* faulty variant: every floor takes the first floor's front count
FrontWindowCount_FirstFloor(cfg, i) == cfg.floors[1].windows.countPerWall.front

\* faulty variant: the side loop runs to the front count
SideWindowCount_UsesFront(cfg, i) == cfg.floors[i + 1].windows.countPerWall.front

\* loop bounds of the two window loops of floor i
FrontWindowCount(cfg, i) == cfg.floors[i + 1].windows.countPerWall.front

SideWindowCount(cfg, i) == cfg.floors[i + 1].windows.countPerWall.side

\* iteration j of the front/back window loop of floor i: the four front parts,
\* then their four clones on the back wall
FrontBackWindow(cfg, i, j) ==
    LET windows == cfg.floors[i + 1].windows
        windowX == (Half(0 - cfg.width) + windows.spacing)
                       + j * (windows.width + windows.spacing)
        windowY == i * cfg.floorHeight + Half(windows.height)
        windowZ == Half(cfg.depth)
        frameLine ==
            SetPosition(LineSegments("frameLine", "front", i,
                                     windows.width + FrameExtra,
                                     windows.height + FrameExtra, FrameDepth),
                        windowX, windowY, windowZ)
        paneLine ==
            SetPosition(LineSegments("paneLine", "front", i,
                                     windows.width, windows.height, PaneDepth),
                        windowX, windowY, windowZ)
        verticalDividerLine ==
            SetPosition(LineSegments("verticalDividerLine", "front", i,
                                     PaneDepth, windows.height, PaneDepth),
                        windowX, windowY, windowZ)
        horizontalDividerLine ==
            SetPosition(LineSegments("horizontalDividerLine", "front", i,
                                     windows.width, PaneDepth, PaneDepth),
                        windowX, windowY, windowZ)
        backZ == Half(0 - cfg.depth)
    IN  << frameLine, paneLine, verticalDividerLine, horizontalDividerLine,
           CloneAtZ(frameLine, "backFrameLine", "back", backZ),
           CloneAtZ(paneLine, "backPaneLine", "back", backZ),
           CloneAtZ(verticalDividerLine, "backVerticalDividerLine", "back", backZ),
           CloneAtZ(horizontalDividerLine, "backHorizontalDividerLine", "back",
                    backZ) >>

\* iteration j of the side window loop of floor i: the four parts at
\* x = -width/2, then their four clones at x = width/2
SideWindow(cfg, i, j) ==
    LET windows == cfg.floors[i + 1].windows
        windowX == Half(0 - cfg.width)
        windowY == i * cfg.floorHeight + Half(windows.height)
        windowZ == (Half(0 - cfg.depth) + windows.spacing)
                       + j * (windows.width + windows.spacing)
        frameLine ==
            SetPosition(LineSegments("frameLine", "left", i, FrameDepth,
                                     windows.height + FrameExtra,
                                     windows.width + FrameExtra),
                        windowX, windowY, windowZ)
        paneLine ==
            SetPosition(LineSegments("paneLine", "left", i,
                                     PaneDepth, windows.height, windows.width),
                        windowX, windowY, windowZ)
        verticalDividerLine ==
            SetPosition(LineSegments("verticalDividerLine", "left", i,
                                     PaneDepth, windows.height, PaneDepth),
                        windowX, windowY, windowZ)
        horizontalDividerLine ==
            SetPosition(LineSegments("horizontalDividerLine", "left", i,
                                     PaneDepth, PaneDepth, windows.width),
                        windowX, windowY, windowZ)
        rightX == Half(cfg.width)
    IN  << frameLine, paneLine, verticalDividerLine, horizontalDividerLine,
           CloneAtX(frameLine, "rightFrameLine", "right", rightX),
           CloneAtX(paneLine, "rightPaneLine", "right", rightX),
           CloneAtX(verticalDividerLine, "rightVerticalDividerLine", "right",
                    rightX),
           CloneAtX(horizontalDividerLine, "rightHorizontalDividerLine", "right",
                    rightX) >>

accentCount == 8

sideAccentCount == 6

\* faulty variant: the top floor gets a divider as well
DividerEmitted_TopFloorToo(cfg, i) ==
    i < cfg.numFloors /\ cfg.floors[i + 1].divider.enabled

\* the guard of the divider block of floor i
DividerEmitted(cfg, i) ==
    i < cfg.numFloors - 1 /\ cfg.floors[i + 1].divider.enabled

\* the divider block of floor i: the main band, the upper and the lower band,
\* the front accents each followed by its back clone, the left accents each
\* followed by its right clone
Divider(cfg, i) ==
    LET divider == cfg.floors[i + 1].divider
        bandY == (i + 1) * cfg.floorHeight
        dividerLine ==
            [LineSegments("dividerLine", "", i,
                          cfg.width + divider.overhang * 2, divider.height,
                          cfg.depth + divider.overhang * 2)
                EXCEPT !.y = bandY]
        upperDividerLine ==
            [LineSegments("upperDividerLine", "", i,
                          cfg.width + Scale(divider.overhang, 15, 10),
                          Scale(divider.height, 5, 10),
                          cfg.depth + Scale(divider.overhang, 15, 10))
                EXCEPT !.y = bandY + Scale(divider.height, 15, 10)]
        lowerDividerLine ==
            [LineSegments("lowerDividerLine", "", i,
                          cfg.width + Scale(divider.overhang, 15, 10),
                          Scale(divider.height, 5, 10),
                          cfg.depth + Scale(divider.overhang, 15, 10))
                EXCEPT !.y = bandY - Scale(divider.height, 15, 10)]
        accentSpacing == Quot(cfg.width + divider.overhang, accentCount - 1)
        accent(j) ==
            LET accentLine ==
                    SetPosition(
                        LineSegments("accentLine", "front", i,
                                     Scale(divider.height, 5, 10),
                                     divider.height * 4,
                                     Scale(divider.height, 5, 10)),
                        (Half(0 - cfg.width) - divider.overhang)
                            + j * accentSpacing,
                        bandY,
                        Half(cfg.depth) + divider.overhang)
            IN  << accentLine,
                   CloneAtZ(accentLine, "backAccentLine", "back",
                            Half(0 - cfg.depth) - divider.overhang) >>
        sideAccentSpacing ==
            Quot(cfg.depth + divider.overhang, sideAccentCount - 1)
        sideAccent(j) ==
            LET leftAccentLine ==
                    SetPosition(
                        LineSegments("leftAccentLine", "left", i,
                                     Scale(divider.height, 5, 10),
                                     divider.height * 4,
                                     Scale(divider.height, 5, 10)),
                        Half(0 - cfg.width) - divider.overhang,
                        bandY,
                        (Half(0 - cfg.depth) - divider.overhang)
                            + j * sideAccentSpacing)
            IN  << leftAccentLine,
                   CloneAtX(leftAccentLine, "rightAccentLine", "right",
                            Half(cfg.width) + divider.overhang) >>
    IN  IF DividerEmitted(cfg, i)
        THEN <<dividerLine, upperDividerLine, lowerDividerLine>>
             \o ForLoop([j \in 0..(accentCount - 1) |-> accent(j)],
                        0, accentCount)
             \o ForLoop([j \in 0..(sideAccentCount - 1) |-> sideAccent(j)],
                        0, sideAccentCount)
        ELSE <<>>

\* faulty variant: the loop builds the floors from the top one down
Floor_TopDown(cfg, i) ==
    LET t == cfg.numFloors - 1 - i
    IN  <<FloorBody(cfg, t)>>
        \o ForLoop([j \in 0..(FrontWindowCount(cfg, t) - 1) |->
                        FrontBackWindow(cfg, t, j)],
                   0, FrontWindowCount(cfg, t))
        \o ForLoop([j \in 0..(SideWindowCount(cfg, t) - 1) |->
                        SideWindow(cfg, t, j)],
                   0, SideWindowCount(cfg, t))
        \o Divider(cfg, t)

\* one iteration of the floor loop
Floor(cfg, i) ==
    <<FloorBody(cfg, i)>>
    \o ForLoop([j \in 0..(FrontWindowCount(cfg, i) - 1) |->
                    FrontBackWindow(cfg, i, j)],
               0, FrontWindowCount(cfg, i))
    \o ForLoop([j \in 0..(SideWindowCount(cfg, i) - 1) |->
                    SideWindow(cfg, i, j)],
               0, SideWindowCount(cfg, i))
    \o Divider(cfg, i)

\* the y coordinates of the roof block
roofBaseY(cfg) == cfg.numFloors * cfg.floorHeight

RoofLineY(cfg) == roofBaseY(cfg) + Half(cfg.roof.height)

RoofTrimLineY(cfg) ==
    roofBaseY(cfg) + cfg.roof.height + Half(cfg.roof.trim.height)

TowerBaseLineY(cfg) ==
    roofBaseY(cfg) + cfg.roof.height + Half(cfg.roof.tower.base.height)

\* faulty variant: the tower body forgets the tower base below it
TowerLineY_SkipsBase(cfg) ==
    roofBaseY(cfg) + cfg.roof.height + Half(cfg.roof.tower.main.height)

TowerLineY(cfg) ==
    roofBaseY(cfg) + cfg.roof.height + cfg.roof.tower.base.height
        + Half(cfg.roof.tower.main.height)

TowerTopLineY(cfg) ==
    roofBaseY(cfg) + cfg.roof.height + cfg.roof.tower.base.height
        + cfg.roof.tower.main.height + Half(cfg.roof.tower.top.height)

SpireLineY(cfg) ==
    roofBaseY(cfg) + cfg.roof.height + cfg.roof.tower.base.height
        + cfg.roof.tower.main.height + cfg.roof.tower.top.height
        + Half(cfg.roof.tower.spire.height)

\* roof slab, roof trim and the four tower stages
RoofTower(cfg) ==
    LET roof == cfg.roof
        roofLine ==
            [LineSegments("roofLine", "", NoFloor,
                          roof.width, roof.height, roof.depth)
                EXCEPT !.y = RoofLineY(cfg)]
        roofTrimLine ==
            [LineSegments("roofTrimLine", "", NoFloor,
                          roof.width + roof.trim.overhang * 2, roof.trim.height,
                          roof.depth + roof.trim.overhang * 2)
                EXCEPT !.y = RoofTrimLineY(cfg)]
        towerBaseLine ==
            [LineSegments("towerBaseLine", "", NoFloor, roof.tower.base.width,
                          roof.tower.base.height, roof.tower.base.depth)
                EXCEPT !.y = TowerBaseLineY(cfg)]
        towerLine ==
            [LineSegments("towerLine", "", NoFloor, roof.tower.main.width,
                          roof.tower.main.height, roof.tower.main.depth)
                EXCEPT !.y = TowerLineY(cfg)]
        towerTopLine ==
            [LineSegments("towerTopLine", "", NoFloor, roof.tower.top.width,
                          roof.tower.top.height, roof.tower.top.depth)
                EXCEPT !.y = TowerTopLineY(cfg)]
        spireLine ==
            [LineSegments("spireLine", "", NoFloor, roof.tower.spire.width,
                          roof.tower.spire.height, roof.tower.spire.depth)
                EXCEPT !.y = SpireLineY(cfg)]
    IN  <<roofLine, roofTrimLine, towerBaseLine, towerLine, towerTopLine,
          spireLine>>

\* the parapets: front, front top trim, their back clones, left, left top
\* trim, their right clones
Parapets(cfg) ==
    LET roof == cfg.roof
        parapet == roof.parapet
        parapetY == roofBaseY(cfg) + roof.height + Half(parapet.height)
        parapetTopY == roofBaseY(cfg) + roof.height + parapet.height
                           + Half(parapet.topTrim.height)
        frontParapetLine ==
            [LineSegments("frontParapetLine", "front", NoFloor,
                          roof.width, parapet.height, parapet.thickness)
                EXCEPT !.y = parapetY, !.z = Half(roof.depth)]
        frontParapetTopLine ==
            [LineSegments("frontParapetTopLine", "front", NoFloor,
                          roof.width + parapet.topTrim.overhang * 2,
                          parapet.topTrim.height,
                          parapet.thickness + parapet.topTrim.overhang * 2)
                EXCEPT !.y = parapetTopY, !.z = Half(roof.depth)]
        leftParapetLine ==
            [LineSegments("leftParapetLine", "left", NoFloor,
                          parapet.thickness, parapet.height, roof.depth)
                EXCEPT !.y = parapetY, !.x = Half(roof.width)]
        leftParapetTopLine ==
            [LineSegments("leftParapetTopLine", "left", NoFloor,
                          parapet.thickness + parapet.topTrim.overhang * 2,
                          parapet.topTrim.height,
                          roof.depth + parapet.topTrim.overhang * 2)
                EXCEPT !.y = parapetTopY, !.x = Half(roof.width)]
    IN  << frontParapetLine, frontParapetTopLine,
           CloneAtZ(frontParapetLine, "backParapetLine", "back",
                    Half(0 - roof.depth)),
           CloneAtZ(frontParapetTopLine, "backParapetTopLine", "back",
                    Half(0 - roof.depth)),
           leftParapetLine, leftParapetTopLine,
           CloneAtX(leftParapetLine, "rightParapetLine", "right",
                    Half(0 - roof.width)),
           CloneAtX(leftParapetTopLine, "rightParapetTopLine", "right",
                    Half(0 - roof.width)) >>

Roof(cfg) == RoofTower(cfg) \o Parapets(cfg)

(***************************************************************************)
(* The generator as a process: the effect body runs its blocks in order.   *)
(***************************************************************************)
\* the effect starts on some configuration, with an empty scene; MapSystem
\* takes no part
GenInit ==
    /\ buildingConfig \in Configs
    /\ pc = "base"
    /\ floorIndex = 0
    /\ scene = <<>>
    /\ generated = <<>>
    /\ buildings = <<>>
    /\ onCollisionDetected = FALSE
    /\ collidingBuildings = <<>>
    /\ notified = <<>>
    /\ rendered = FALSE
    /\ drawn = <<>>
    /\ evaluations = <<>>

CreateBase ==
    /\ pc = "base"
    /\ scene' = scene \o BaseStack(buildingConfig)
    /\ pc' = "columns"
    /\ UNCHANGED <<buildingConfig, floorIndex>>
    /\ UNCHANGED generated
    /\ UNCHANGED mapVars

CreateColumns ==
    /\ pc = "columns"
    /\ scene' = scene \o Columns(buildingConfig)
    /\ pc' = "corners"
    /\ UNCHANGED <<buildingConfig, floorIndex>>
    /\ UNCHANGED generated
    /\ UNCHANGED mapVars

CreateCorners ==
    /\ pc = "corners"
    /\ scene' = scene \o Corners(buildingConfig)
    /\ pc' = "floors"
    /\ floorIndex' = 0
    /\ UNCHANGED buildingConfig
    /\ UNCHANGED generated
    /\ UNCHANGED mapVars

\* one iteration of for (let i = 0; i < numFloors; i++)
CreateFloor ==
    /\ pc = "floors"
    /\ floorIndex < buildingConfig.numFloors
    /\ scene' = scene \o Floor(buildingConfig, floorIndex)
    /\ floorIndex' = floorIndex + 1
    /\ UNCHANGED <<buildingConfig, pc>>
    /\ UNCHANGED generated
    /\ UNCHANGED mapVars

\* the loop condition fails
EndFloors ==
    /\ pc = "floors"
    /\ ~(floorIndex < buildingConfig.numFloors)
    /\ pc' = "roof"
    /\ UNCHANGED <<buildingConfig, floorIndex, scene>>
    /\ UNCHANGED generated
    /\ UNCHANGED mapVars

CreateRoof ==
    /\ pc = "roof"
    /\ scene' = scene \o Roof(buildingConfig)
    /\ pc' = "done"
    /\ UNCHANGED <<buildingConfig, floorIndex>>
    /\ UNCHANGED generated
    /\ UNCHANGED mapVars

\* faulty variant: the cleanup leaves the scene as it is and the next run of
\* the effect adds to it
Remount_KeepsScene ==
    /\ pc = "done"
    /\ Len(generated) < MaxRuns - 1
    /\ generated' = Append(generated, scene)
    /\ pc' = "base"
    /\ floorIndex' = 0
    /\ UNCHANGED <<buildingConfig, scene>>
    /\ UNCHANGED mapVars

\* the component is unmounted and mounted again: the cleanup clears the scene
\* and the effect runs once more, on a new Scene
Remount ==
    /\ pc = "done"
    /\ Len(generated) < MaxRuns - 1
    /\ generated' = Append(generated, scene)
    /\ scene' = <<>>
    /\ pc' = "base"
    /\ floorIndex' = 0
    /\ UNCHANGED buildingConfig
    /\ UNCHANGED mapVars

GenNext ==
    \/ CreateBase
    \/ CreateColumns
    \/ CreateCorners
    \/ CreateFloor
    \/ EndFloors
    \/ CreateRoof

RegenNext ==
    \/ CreateBase
    \/ CreateColumns
    \/ CreateCorners
    \/ CreateFloor
    \/ EndFloors
    \/ CreateRoof
    \/ Remount

(***************************************************************************)
(* Placements (BuildingData).  A placement is a record; an optional field  *)
(* that is absent is absent from the record's domain.                      *)
(***************************************************************************)
Has(b, f) == f \in DOMAIN b

\* b.x, b.z in arithmetic: undefined converts to NaN
Coord(b, f) == IF Has(b, f) THEN b[f] ELSE NaN

\* b.width || 1: undefined, 0 and NaN are falsy
OrOne(b, f) == IF Has(b, f) /\ b[f] # 0 /\ b[f] # NaN THEN b[f] ELSE One

\* a < b on numbers: false when either side is NaN
LessThan(a, b) == a # NaN /\ b # NaN /\ a < b

Minus(a, b) == Plus(a, Neg(b))

\* faulty variant: the x test uses the building's own width for both halves
Overlaps_OwnWidthOnly(building, other) ==
    LET buildingWidth == OrOne(building, "width")
        buildingDepth == OrOne(building, "depth")
        otherDepth == OrOne(other, "depth")
        xOverlap == LessThan(Abs(Minus(Coord(building, "x"), Coord(other, "x"))),
                             Half(buildingWidth + buildingWidth))
        zOverlap == LessThan(Abs(Minus(Coord(building, "z"), Coord(other, "z"))),
                             Half(buildingDepth + otherDepth))
    IN  xOverlap /\ zOverlap

\* the callback of otherBuildings.some
Overlaps(building, other) ==
    LET buildingWidth == OrOne(building, "width")
        buildingDepth == OrOne(building, "depth")
        otherWidth == OrOne(other, "width")
        otherDepth == OrOne(other, "depth")
        xOverlap == LessThan(Abs(Minus(Coord(building, "x"), Coord(other, "x"))),
                             Half(buildingWidth + otherWidth))
        zOverlap == LessThan(Abs(Minus(Coord(building, "z"), Coord(other, "z"))),
                             Half(buildingDepth + otherDepth))
    IN  xOverlap /\ zOverlap

checkBuildingCollision(building, otherBuildings) ==
    \E k \in 1..Len(otherBuildings) : Overlaps(building, otherBuildings[k])

\* buildings.slice(0, index).concat(buildings.slice(index + 1)), index from 0
OtherBuildings(bs, index) ==
    SubSeq(bs, 1, index) \o SubSeq(bs, index + 2, Len(bs))

\* buildings.filter((building, index) => checkBuildingCollision(...)):
\* the indices (from 0) that pass, in order
RECURSIVE CollidingFrom(_, _)
CollidingFrom(bs, index) ==
    IF index >= Len(bs) THEN <<>>
    ELSE (IF checkBuildingCollision(bs[index + 1], OtherBuildings(bs, index))
          THEN <<index>> ELSE <<>>)
         \o CollidingFrom(bs, index + 1)

CollidingIndices(bs) == CollidingFrom(bs, 0)

\* faulty variant: a non-empty result of an earlier evaluation is kept
Colliding_Stale(bs) ==
    IF collidingBuildings # <<>> THEN collidingBuildings
    ELSE [k \in 1..Len(CollidingIndices(bs)) |-> bs[CollidingIndices(bs)[k] + 1]]

Colliding(bs) ==
    [k \in 1..Len(CollidingIndices(bs)) |-> bs[CollidingIndices(bs)[k] + 1]]

\* the placements enumerated: x = 10, 10.4 and 11 on the row z = 10, and one
\* position on the row z = 11, with footprints given, given as 0, or left out
XS == {cu(1000), cu(1040), cu(1100)}

Positions ==
    { [x |-> x, z |-> cu(1000)] : x \in XS } \cup { [x |-> cu(1000), z |-> cu(1100)] }

Footprints ==
    { [width |-> cu(100), depth |-> cu(100)],
      [width |-> 0, depth |-> cu(100)],
      [width |-> cu(100), depth |-> 0],
      [width |-> cu(200), depth |-> cu(200)] }

Placements ==
    Positions
    \cup { [x |-> p.x, z |-> p.z, width |-> f.width, depth |-> f.depth] :
             p \in Positions, f \in Footprints }
    \cup { [x |-> p.x, z |-> p.z, width |-> cu(200)] : p \in Positions }
    \cup { [z |-> cu(1000)], [x |-> cu(1000)],
           [z |-> cu(1000), width |-> cu(100), depth |-> cu(100)] }

\* the list App passes
sampleBuildings ==
    << [x |-> cu(1000), z |-> cu(1000), width |-> cu(100), depth |-> cu(100)],
       [x |-> cu(2000), z |-> cu(2000), width |-> cu(100), depth |-> cu(100)],
       [x |-> cu(3000), z |-> cu(3000), width |-> cu(100), depth |-> cu(100)] >>

\* lists of three placements with a far one, sampleBuildings[2], in the middle
SpacedLists == { <<p, sampleBuildings[2], q>> : p, q \in Placements }

PlacementLists ==
    UNION { [1..n -> Placements] : n \in 0..MaxBuildings }
    \cup {sampleBuildings}
    \cup SpacedLists

\* the placements of the lists MapSystem is rendered with again and again:
\* x = 10 without a footprint, x = 10.4 and x = 11 with a unit footprint
RerenderPlacements ==
    { [x |-> cu(1000), z |-> cu(1000)],
      [x |-> cu(1040), z |-> cu(1000), width |-> cu(100), depth |-> cu(100)],
      [x |-> cu(1100), z |-> cu(1000), width |-> cu(100), depth |-> cu(100)] }

RerenderLists == UNION { [1..n -> RerenderPlacements] : n \in 0..MaxBuildings }

\* the lists the parent may pass next: the same list, the list with one
\* placement added, the list without its last placement
NextLists(bs) ==
    {bs}
    \cup (IF Len(bs) < MaxBuildings
          THEN { Append(bs, p) : p \in RerenderPlacements } ELSE {})
    \cup (IF Len(bs) > 0 THEN { SubSeq(bs, 1, Len(bs) - 1) } ELSE {})

GRID_SIZE == 64

\* the position prop MapSystem gives the BuildingScene of a placement
BuildingPosition(building) ==
    << Minus(Coord(building, "x"), Half(GRID_SIZE * Unit)),
       0,
       Minus(Coord(building, "z"), Half(GRID_SIZE * Unit)) >>

\* width and depth of the buildingConfig of the BuildingScene component
sceneConfig == [width |-> cu(800), depth |-> cu(600)]

\* the ground footprint of the floor boxes BuildingScene draws at position
BuildingScene(position) ==
    [x |-> position[1], z |-> position[3],
     width |-> sceneConfig.width, depth |-> sceneConfig.depth]

(***************************************************************************)
(* MapSystem: one evaluation of the component on its props.                *)
(***************************************************************************)
\* MapSystem is given some placement list; the generator takes no part
MapInit ==
    /\ buildings \in PlacementLists
    /\ onCollisionDetected \in BOOLEAN
    /\ collidingBuildings = <<>>
    /\ notified = <<>>
    /\ rendered = FALSE
    /\ drawn = <<>>
    /\ evaluations = <<>>
    /\ buildingConfig = <<>>
    /\ pc = "done"
    /\ floorIndex = 0
    /\ scene = <<>>
    /\ generated = <<>>

\* MapSystem is rendered repeatedly, starting with some short list
RerenderInit ==
    /\ buildings \in RerenderLists
    /\ onCollisionDetected \in BOOLEAN
    /\ collidingBuildings = <<>>
    /\ notified = <<>>
    /\ rendered = FALSE
    /\ drawn = <<>>
    /\ evaluations = <<>>
    /\ buildingConfig = <<>>
    /\ pc = "done"
    /\ floorIndex = 0
    /\ scene = <<>>
    /\ generated = <<>>

\* faulty variant: the callback is invoked on every evaluation
MapSystem_AlwaysNotifies ==
    /\ ~rendered
    /\ collidingBuildings' = Colliding(buildings)
    /\ notified' = IF onCollisionDetected
                   THEN Append(notified, Colliding(buildings))
                   ELSE notified
    /\ drawn' = [k \in 1..Len(buildings) |->
                    BuildingScene(BuildingPosition(buildings[k]))]
    /\ evaluations' = Append(evaluations,
                             [buildings |-> buildings,
                              result |-> Colliding(buildings)])
    /\ rendered' = TRUE
    /\ UNCHANGED <<buildings, onCollisionDetected>>
    /\ UNCHANGED genVars

MapSystem ==
    /\ ~rendered
    /\ collidingBuildings' = Colliding(buildings)
    /\ notified' = IF Len(Colliding(buildings)) > 0 /\ onCollisionDetected
                   THEN Append(notified, Colliding(buildings))
                   ELSE notified
    /\ drawn' = [k \in 1..Len(buildings) |->
                    BuildingScene(BuildingPosition(buildings[k]))]
    /\ evaluations' = Append(evaluations,
                             [buildings |-> buildings,
                              result |-> Colliding(buildings)])
    /\ rendered' = TRUE
    /\ UNCHANGED <<buildings, onCollisionDetected>>
    /\ UNCHANGED genVars

\* the parent renders MapSystem again, with the next placement list
Rerender ==
    /\ rendered
    /\ Len(evaluations) < MaxRenders
    /\ buildings' \in NextLists(buildings)
    /\ rendered' = FALSE
    /\ UNCHANGED <<onCollisionDetected, collidingBuildings, notified, drawn,
                   evaluations>>
    /\ UNCHANGED genVars

(***************************************************************************)
(* Specifications.  The two subsystems do not interact: GenSpec runs the   *)
(* generator on every enumerated configuration, MapSpec evaluates          *)
(* MapSystem on every enumerated placement list.  RegenSpec lets the       *)
(* effect run again after its cleanup, RerenderSpec lets MapSystem be      *)
(* rendered again with changing placement lists.                           *)
(***************************************************************************)
MapNext == MapSystem

RerenderNext ==
    \/ MapSystem
    \/ Rerender

GenSpec == GenInit /\ [][GenNext]_vars

MapSpec == MapInit /\ [][MapNext]_vars

RegenSpec == GenInit /\ [][RegenNext]_vars

RerenderSpec == RerenderInit /\ [][RerenderNext]_vars

(***************************************************************************)
(* Properties                                                              *)
(***************************************************************************)
Range(seq) == { seq[k] : k \in 1..Len(seq) }

\* the number of primitives of seq that are named name on wall wall of floor i
CountOf(seq, name, wall, i) ==
    Cardinality({ k \in 1..Len(seq) :
                    /\ seq[k].name = name
                    /\ seq[k].wall = wall
                    /\ seq[k].floor = i })

CountNamed(seq, names) ==
    Cardinality({ k \in 1..Len(seq) : seq[k].name \in names })

\* the primitive of the scene held by the source variable name (one per scene)
Named(name) == CHOOSE p \in Range(scene) : p.name = name

Top(p) == p.y + Half(p.h)

Bottom(p) == p.y - Half(p.h)

\* ---- placement claims, on the evaluated MapSystem ----

HasPosition(b) == Has(b, "x") /\ Has(b, "z")

Reported(b) == b \in Range(collidingBuildings)

\* width and depth as the specification reads them: 1 when absent
GivenOrOne(b, f) == IF Has(b, f) THEN b[f] ELSE One

SpecOverlap(a, b) ==
    /\ Abs(a.x - b.x) < Half(GivenOrOne(a, "width") + GivenOrOne(b, "width"))
    /\ Abs(a.z - b.z) < Half(GivenOrOne(a, "depth") + GivenOrOne(b, "depth"))

\* C1: the placement at index i is reported as colliding if and only if some
\* placement at another index k overlaps it, |x_i - x_k| < (w_i + w_k)/2 and
\* |z_i - z_k| < (d_i + d_k)/2, an absent width or depth counting as 1 (and a
\* given one as given); a list of one placement reports nothing.
C1_ReportedIffOverlapsAnother ==
    (rendered /\ \A k \in 1..Len(buildings) : HasPosition(buildings[k]))
    => /\ \A i \in 1..Len(buildings) :
              Reported(buildings[i])
              <=> \E k \in 1..Len(buildings) :
                      k # i /\ SpecOverlap(buildings[i], buildings[k])
       /\ (Len(buildings) = 1 => collidingBuildings = <<>>)

\* C2: touching is not colliding: two placements with equal z whose |dx| is
\* exactly (wA + wB)/2 are both reported as not colliding, and with a smaller
\* |dx| both are reported as colliding.
C2_TouchingIsNotColliding ==
    (/\ rendered
     /\ Len(buildings) = 2
     /\ HasPosition(buildings[1]) /\ HasPosition(buildings[2])
     /\ buildings[1].z = buildings[2].z)
    => LET a == buildings[1]
           b == buildings[2]
           dx == Abs(a.x - b.x)
           reach == Half(GivenOrOne(a, "width") + GivenOrOne(b, "width"))
       IN  /\ dx = reach => collidingBuildings = <<>>
           /\ dx < reach => collidingBuildings = <<a, b>>

\* C3: collision reporting is symmetric: a overlaps b iff b overlaps a, when
\* one of an overlapping pair is reported so is the other, and the reported
\* list never holds exactly one placement.
C3_CollisionSymmetric ==
    rendered
    => /\ \A a, b \in 1..Len(buildings) :
              a # b =>
                /\ Overlaps(buildings[a], buildings[b])
                       <=> Overlaps(buildings[b], buildings[a])
                /\ Overlaps(buildings[a], buildings[b])
                       => Reported(buildings[a]) /\ Reported(buildings[b])
       /\ Len(collidingBuildings) # 1

\* a reported pair with different footprints, one of them left to the default
C3_Witness ==
    /\ rendered
    /\ Len(buildings) = 2
    /\ collidingBuildings = buildings
    /\ ~Has(buildings[1], "width")
    /\ Has(buildings[2], "width") /\ buildings[2].width = cu(200)
    /\ buildings[1].x # buildings[2].x

\* C8: a placement that lacks x or z makes the check fail with an
\* input-validation error instead of yielding a collision result: no
\* evaluation completes on a list that holds such a placement.
C8_MissingPositionRejected ==
    rendered => \A k \in 1..Len(buildings) : HasPosition(buildings[k])

\* ---- generator claims, on the scene ----

MirroredNames ==
    { "backFrameLine", "backPaneLine", "backVerticalDividerLine",
      "backHorizontalDividerLine", "rightFrameLine", "rightPaneLine",
      "rightVerticalDividerLine", "rightHorizontalDividerLine",
      "backAccentLine", "rightAccentLine", "backParapetLine",
      "backParapetTopLine", "rightParapetLine", "rightParapetTopLine" }

\* the source variable the mirrored primitive was cloned from
Original(name) ==
    CASE name \in {"backFrameLine", "rightFrameLine"} -> "frameLine"
      [] name \in {"backPaneLine", "rightPaneLine"} -> "paneLine"
      [] name \in {"backVerticalDividerLine", "rightVerticalDividerLine"}
           -> "verticalDividerLine"
      [] name \in {"backHorizontalDividerLine", "rightHorizontalDividerLine"}
           -> "horizontalDividerLine"
      [] name = "backAccentLine" -> "accentLine"
      [] name = "rightAccentLine" -> "leftAccentLine"
      [] name = "backParapetLine" -> "frontParapetLine"
      [] name = "backParapetTopLine" -> "frontParapetTopLine"
      [] name = "rightParapetLine" -> "leftParapetLine"
      [] name = "rightParapetTopLine" -> "leftParapetTopLine"

OppositeWall(wall) == IF wall = "back" THEN "front" ELSE "left"

\* q equals p but for one coordinate, which is p's negated
MirrorOf(p, q) ==
    /\ q.w = p.w /\ q.h = p.h /\ q.d = p.d /\ q.color = p.color
    /\ \/ q.x = p.x /\ q.y = p.y /\ q.z = 0 - p.z /\ q.z # p.z
       \/ q.x = 0 - p.x /\ q.x # p.x /\ q.y = p.y /\ q.z = p.z
       \/ q.x = p.x /\ q.y = 0 - p.y /\ q.y # p.y /\ q.z = p.z

\* C4: every mirrored primitive (back and right window parts, back and right
\* accents, back and right parapets and their top trims) has a front/left
\* counterpart with the same dimensions, colour and other coordinates, and
\* differs from it in exactly one coordinate, the counterpart's negated.
C4_MirroredHasCounterpart ==
    \A k \in 1..Len(scene) :
        scene[k].name \in MirroredNames
        => \E m \in 1..Len(scene) :
               /\ scene[m].name = Original(scene[k].name)
               /\ scene[m].wall = OppositeWall(scene[k].wall)
               /\ scene[m].floor = scene[k].floor
               /\ MirrorOf(scene[m], scene[k])

\* a finished building with mirrored windows, accents and parapets
C4_Witness ==
    /\ pc = "done"
    /\ \A name \in MirroredNames : \E k \in 1..Len(scene) : scene[k].name = name

\* next rests on prev: its centre is prev's top plus half its own height
StackedOn(next, prev) == next.y = Top(prev) + Half(next.h)

\* C5 as stated: in the roof stack (roof slab, roof trim, tower base, tower
\* main, tower top, spire, in that order) every stage after the first has
\* centre y equal to the previous stage's top y plus half its own height.
C5_RoofStackChained ==
    pc = "done"
    => /\ StackedOn(Named("roofTrimLine"), Named("roofLine"))
       /\ StackedOn(Named("towerBaseLine"), Named("roofTrimLine"))
       /\ StackedOn(Named("towerLine"), Named("towerBaseLine"))
       /\ StackedOn(Named("towerTopLine"), Named("towerLine"))
       /\ StackedOn(Named("spireLine"), Named("towerTopLine"))

\* C5 amended: roof slab, tower base, tower main, tower top and spire are
\* chained (each centre is the previous top plus half its own height); the
\* roof trim is not a link of the chain: like the tower base it rests on the
\* roof slab's top, so the tower base starts at the trim's bottom face.
C5_TowerChainedOnSlab ==
    pc = "done"
    => /\ StackedOn(Named("roofTrimLine"), Named("roofLine"))
       /\ StackedOn(Named("towerBaseLine"), Named("roofLine"))
       /\ StackedOn(Named("towerLine"), Named("towerBaseLine"))
       /\ StackedOn(Named("towerTopLine"), Named("towerLine"))
       /\ StackedOn(Named("spireLine"), Named("towerTopLine"))
       /\ Bottom(Named("towerBaseLine")) = Bottom(Named("roofTrimLine"))

\* a finished building above at least one floor, whose roof stages all have
\* positive heights
C5_Witness ==
    /\ pc = "done"
    /\ buildingConfig.numFloors > 0
    /\ \A name \in {"roofLine", "roofTrimLine", "towerBaseLine", "towerLine",
                    "towerTopLine", "spireLine"} :
           \E k \in 1..Len(scene) : scene[k].name = name /\ scene[k].h > 0

BaseNames == {"baseLine", "middleLayerLine", "topTrimLine"}

\* C6 as stated: the top face of each of the three base primitives is at or
\* below y = 0, and the highest of them is exactly 0.
C6_BaseStackBelowZero ==
    pc # "base"
    => /\ \A name \in BaseNames : Top(Named(name)) <= 0
       /\ \E name \in BaseNames : Top(Named(name)) = 0

\* C6 amended: only the outer platform lies at or below y = 0, its top face
\* exactly at 0; the middle layer is centred on y = 0 (top face at 0.15 of the
\* base height) and the top trim rests on it (top face at 0.35 of the base
\* height), so the stack's highest face is 0.35 base heights above y = 0.
C6_PlatformBelowZeroStackAbove ==
    pc # "base"
    => LET height == buildingConfig.base.height
       IN  /\ Top(Named("baseLine")) = 0
           /\ Named("middleLayerLine").y = 0
           /\ Top(Named("middleLayerLine")) = Scale(height, 15, 100)
           /\ Bottom(Named("topTrimLine")) = Top(Named("middleLayerLine"))
           /\ Top(Named("topTrimLine")) = Scale(height, 35, 100)
           /\ \A name \in BaseNames :
                  Top(Named(name)) <= Top(Named("topTrimLine"))

\* the base stack of a configuration with a positive base height is in the scene
C6_Witness ==
    /\ pc = "columns"
    /\ buildingConfig.base.height > 0
    /\ Len(scene) = 3

\* what sections 3 and 7 of the specification call an invalid configuration,
\* among those enumerated: no floor, or enabled columns whose count makes a
\* spacing divisor count - 1 zero on the front/back rows or on the side rows
InvalidConfiguration(cfg) ==
    \/ cfg.numFloors < 1
    \/ /\ cfg.base.columns.enabled
       /\ \/ cfg.base.columns.count - 1 = 0
          \/ FloorThreeQuarters(cfg.base.columns.count) - 1 = 0

Finite(p) == isFinite(p.x) /\ isFinite(p.y) /\ isFinite(p.z)

\* C7: an invalid configuration makes generation fail with a validation
\* error (generation never completes on one), and no primitive with an
\* infinite or NaN coordinate is ever emitted.
C7_InvalidConfigurationRejected ==
    /\ pc = "done" => ~InvalidConfiguration(buildingConfig)
    /\ \A k \in 1..Len(scene) : Finite(scene[k])

WindowParts ==
    {"frameLine", "paneLine", "verticalDividerLine", "horizontalDividerLine"}

BackParts ==
    {"backFrameLine", "backPaneLine", "backVerticalDividerLine",
     "backHorizontalDividerLine"}

RightParts ==
    {"rightFrameLine", "rightPaneLine", "rightVerticalDividerLine",
     "rightHorizontalDividerLine"}

\* C9: on every floor i the front wall has countPerWall.front window
\* assemblies of 4 parts each (one frame, pane, vertical and horizontal divider
\* per assembly), the back wall as many, and the left and the right wall have
\* countPerWall.side assemblies each.
C9_WindowCountFidelity ==
    \A i \in 0..(floorIndex - 1) :
        LET countPerWall == buildingConfig.floors[i + 1].windows.countPerWall
        IN  /\ \A part \in WindowParts :
                   /\ CountOf(scene, part, "front", i) = countPerWall.front
                   /\ CountOf(scene, part, "left", i) = countPerWall.side
            /\ \A part \in BackParts :
                   CountOf(scene, part, "back", i) = countPerWall.front
            /\ \A part \in RightParts :
                   CountOf(scene, part, "right", i) = countPerWall.side

\* two floors are built, with different front counts and different side
\* counts, and on one of them front and side counts differ
C9_Witness ==
    /\ floorIndex = 2
    /\ buildingConfig.floors[1].windows.countPerWall.front
           # buildingConfig.floors[2].windows.countPerWall.front
    /\ buildingConfig.floors[1].windows.countPerWall.side
           # buildingConfig.floors[2].windows.countPerWall.side
    /\ buildingConfig.floors[2].windows.countPerWall.front
           # buildingConfig.floors[2].windows.countPerWall.side

DividerNames ==
    {"dividerLine", "upperDividerLine", "lowerDividerLine", "accentLine",
     "backAccentLine", "leftAccentLine", "rightAccentLine"}

RoofNames ==
    {"roofLine", "roofTrimLine", "towerBaseLine", "towerLine", "towerTopLine",
     "spireLine", "frontParapetLine", "frontParapetTopLine", "backParapetLine",
     "backParapetTopLine", "leftParapetLine", "leftParapetTopLine",
     "rightParapetLine", "rightParapetTopLine"}

\* C10: with floor count 1, columns disabled and dividers disabled the
\* generator emits exactly 3 base + 4 corner + 1 floor slab + 8 * countFront
\* front/back window + 8 * countSide side window + 14 roof-stack primitives,
\* and no divider or accent primitive.
C10_SingleFloorCount ==
    (/\ pc = "done"
     /\ buildingConfig.numFloors = 1
     /\ ~buildingConfig.base.columns.enabled
     /\ ~buildingConfig.floors[1].divider.enabled)
    => LET countPerWall == buildingConfig.floors[1].windows.countPerWall
           frontBack == {p \in Range(scene) : p.wall \in {"front", "back"}
                                               /\ p.floor = 0}
           sides == {p \in Range(scene) : p.wall \in {"left", "right"}
                                           /\ p.floor = 0}
       IN  /\ Len(scene) = 3 + 4 + 1 + 8 * countPerWall.front
                               + 8 * countPerWall.side + 14
           /\ CountNamed(scene, BaseNames) = 3
           /\ CountNamed(scene, {"corner"}) = 4
           /\ CountNamed(scene, {"line"}) = 1
           /\ CountNamed(scene, WindowParts \cup BackParts \cup RightParts)
                  = 8 * countPerWall.front + 8 * countPerWall.side
           /\ CountNamed(scene, RoofNames) = 14
           /\ CountNamed(scene, DividerNames) = 0
           /\ CountNamed(scene, {"columnBase", "column", "columnTop"}) = 0

\* such a building is finished, with different front and side counts
C10_Witness ==
    /\ pc = "done"
    /\ buildingConfig.numFloors = 1
    /\ ~buildingConfig.base.columns.enabled
    /\ ~buildingConfig.floors[1].divider.enabled
    /\ buildingConfig.floors[1].windows.countPerWall.front
           # buildingConfig.floors[1].windows.countPerWall.side
    /\ Len(scene) > 0

\* the number of primitives of seq named name that belong to floor i
CountOnFloor(seq, name, i) ==
    Cardinality({ k \in 1..Len(seq) : seq[k].name = name /\ seq[k].floor = i })

\* how many primitives of each name one divider block holds
DividerBlock ==
    [dividerLine |-> 1, upperDividerLine |-> 1, lowerDividerLine |-> 1,
     accentLine |-> 8, backAccentLine |-> 8,
     leftAccentLine |-> 6, rightAccentLine |-> 6]

\* C13: floor i has divider primitives exactly when its divider is enabled
\* and i < numFloors - 1; it then has exactly 1 main band, 2 secondary bands,
\* 8 front and 8 back accents, 6 left and 6 right accents and no other
\* divider primitive; the main band and the accents are centred at
\* y = (i + 1) * floorHeight and the two secondary bands lie 1.5 divider
\* heights above and below it.
C13_DividerPerFloor ==
    \A i \in 0..(floorIndex - 1) :
        LET divider == buildingConfig.floors[i + 1].divider
            bandY == (i + 1) * buildingConfig.floorHeight
            emitted == divider.enabled /\ i < buildingConfig.numFloors - 1
            ofFloor == { p \in Range(scene) :
                           p.name \in DividerNames /\ p.floor = i }
        IN  /\ \A name \in DividerNames :
                   CountOnFloor(scene, name, i)
                       = IF emitted THEN DividerBlock[name] ELSE 0
            /\ \A p \in ofFloor :
                   p.y = CASE p.name = "upperDividerLine" ->
                                  bandY + Scale(divider.height, 15, 10)
                           [] p.name = "lowerDividerLine" ->
                                  bandY - Scale(divider.height, 15, 10)
                           [] OTHER -> bandY

\* a two-floor building is finished whose two floors both enable the divider:
\* the lower floor has its 31 divider primitives, the top floor none
C13_Witness ==
    /\ pc = "done"
    /\ buildingConfig.numFloors = 2
    /\ buildingConfig.floors[1].divider.enabled
    /\ buildingConfig.floors[2].divider.enabled
    /\ Cardinality({ k \in 1..Len(scene) :
                       scene[k].name \in DividerNames /\ scene[k].floor = 0 })
           = 31
    /\ \A k \in 1..Len(scene) :
           scene[k].name \in DividerNames => scene[k].floor = 0

ColumnNames == {"columnBase", "column", "columnTop"}

\* the primitives of seq named name of row side, in scene order
RowOf(seq, name, side) ==
    LET InRow(p) == p.name = name /\ p.wall = ColumnSide(side)
    IN  SelectSeq(seq, InRow)

\* C14: once the column block has run, with columns enabled each of the 4
\* sides has a row of 3-part assemblies (base, shaft and top at one x, z):
\* count assemblies on each of the two rows laid along x at z = +/- base.depth/2,
\* floor(0.75 * count) on each of the two rows laid along z at
\* x = +/- base.width/2, consecutive assemblies of a row exactly
\* (sideLength - columnWidth) / (rowCount - 1) apart; with columns disabled
\* there is no column primitive.
C14_ColumnRows ==
    pc \notin {"base", "columns"} =>
        LET base == buildingConfig.base
            count == base.columns.count
        IN  IF ~base.columns.enabled
            THEN CountNamed(scene, ColumnNames) = 0
            ELSE \A side \in 0..3 :
                   LET alongX == side \in {0, 2}
                       rowCount == IF alongX THEN count ELSE (3 * count) \div 4
                       sideLength == IF alongX THEN base.width ELSE base.depth
                       fixed == CASE side = 0 -> Half(base.depth)
                                  [] side = 2 -> 0 - Half(base.depth)
                                  [] side = 1 -> Half(base.width)
                                  [] side = 3 -> 0 - Half(base.width)
                       row == RowOf(scene, "column", side)
                       along(p) == IF alongX THEN p.x ELSE p.z
                       across(p) == IF alongX THEN p.z ELSE p.x
                   IN  /\ \A name \in ColumnNames :
                              Len(RowOf(scene, name, side)) = rowCount
                       /\ \A k \in 1..Len(row) :
                              /\ across(row[k]) = fixed
                              /\ \A name \in ColumnNames :
                                     LET part == RowOf(scene, name, side)[k]
                                     IN  part.x = row[k].x /\ part.z = row[k].z
                       /\ \A k \in 1..(Len(row) - 1) :
                              (along(row[k + 1]) - along(row[k])) * (rowCount - 1)
                                  = sideLength - base.columns.width

\* a building with 4 columns per front/back row and 3 per side row is finished
C14_Witness ==
    /\ pc = "done"
    /\ buildingConfig.base.columns.enabled
    /\ buildingConfig.base.columns.count = 4
    /\ Len(RowOf(scene, "column", 0)) = 4
    /\ Len(RowOf(scene, "column", 3)) = 3
    /\ RowOf(scene, "column", 1)[1].z # RowOf(scene, "column", 1)[2].z

\* the place of a primitive in the construction order: base, columns,
\* corners, then floor 0, floor 1, ..., then the roof stack
LayerOf(p) ==
    CASE p.name \in BaseNames -> 0
      [] p.name \in ColumnNames -> 1
      [] p.name = "corner" -> 2
      [] p.name \in RoofNames -> 3 + buildingConfig.numFloors
      [] OTHER -> 3 + p.floor

InConstructionOrder(seq) ==
    \A k \in 1..(Len(seq) - 1) : LayerOf(seq[k]) <= LayerOf(seq[k + 1])

IsPrefix(s, t) == Len(s) <= Len(t) /\ SubSeq(t, 1, Len(s)) = s

\* C15: every step of the generator only appends (the scene before the step
\* is a prefix of the scene after it), and the scene is always in
\* construction order: base primitives, then column primitives, then corners,
\* then the primitives of floor 0, of floor 1, ..., then the roof stack.
C15_ConstructionOrder ==
    [][IsPrefix(scene, scene') /\ InConstructionOrder(scene')]_vars

\* a finished two-floor building with columns: all five layers are present
C15_Witness ==
    /\ pc = "done"
    /\ buildingConfig.numFloors = 2
    /\ \E p \in Range(scene) : p.name \in BaseNames
    /\ \E p \in Range(scene) : p.name \in ColumnNames
    /\ \E p \in Range(scene) : p.name = "corner"
    /\ \E p \in Range(scene) : p.floor = 0
    /\ \E p \in Range(scene) : p.floor = 1
    /\ \E p \in Range(scene) : p.name \in RoofNames

\* C18: with the built-in configuration every front-wall window part has its
\* centre x within [-width/2, width/2] and every side-wall window part has its
\* centre z within [-depth/2, depth/2].
C18_WindowsOnWall ==
    buildingConfig = builtinBuildingConfig =>
        \A k \in 1..Len(scene) :
            LET p == scene[k]
            IN  /\ (p.name \in WindowParts /\ p.wall = "front") =>
                       /\ 0 - Half(buildingConfig.width) <= p.x
                       /\ p.x <= Half(buildingConfig.width)
                /\ (p.name \in WindowParts /\ p.wall = "left") =>
                       /\ 0 - Half(buildingConfig.depth) <= p.z
                       /\ p.z <= Half(buildingConfig.depth)

\* the elements of seq at the indices in I, in the order of seq
AtIndices(seq, I) ==
    LET Nth(n) == CHOOSE i \in I : Cardinality({ m \in I : m < i }) = n - 1
    IN  [n \in 1..Cardinality(I) |-> seq[Nth(n)]]

\* the placements of bs that collide with a placement at another index
CollidingPlacements(bs) ==
    AtIndices(bs, { i \in 1..Len(bs) :
                      \E k \in 1..Len(bs) : k # i /\ Overlaps(bs[i], bs[k]) })

\* an evaluation of MapSystem
Evaluation == ~rendered /\ rendered'

\* C16: an evaluation of MapSystem invokes the callback once, with exactly
\* the colliding placements in input order, when a callback is supplied and
\* at least one placement collides, and does not invoke it otherwise; it is
\* never invoked with an empty list, and not for the three sample buildings.
C16_CallbackOncePerCollidingEvaluation ==
    [][Evaluation =>
         LET colliding == CollidingPlacements(buildings)
         IN  /\ notified' = IF onCollisionDetected /\ colliding # <<>>
                            THEN Append(notified, colliding)
                            ELSE notified
             /\ \A k \in 1..Len(notified') : notified'[k] # <<>>
             /\ buildings = sampleBuildings => notified' = notified]_vars

\* a callback was supplied and was invoked once, with the first and the third
\* of three placements: the second one does not collide
C16_Witness ==
    /\ rendered
    /\ onCollisionDetected
    /\ Len(buildings) = 3
    /\ buildings[1] # buildings[3]
    /\ notified = << <<buildings[1], buildings[3]>> >>

\* two drawn footprints share interior points of the x-z plane
FootprintsIntersect(a, b) ==
    /\ LessThan(Abs(Minus(a.x, b.x)), Half(a.width + b.width))
    /\ LessThan(Abs(Minus(a.z, b.z)), Half(a.depth + b.depth))

\* C17: any two placements (with a position) that the evaluation does not
\* report as colliding are drawn with floor boxes that do not intersect in
\* the x-z plane.
C17_UnreportedDrawnApart ==
    rendered =>
        \A i, j \in 1..Len(buildings) :
            (/\ i # j
             /\ HasPosition(buildings[i]) /\ HasPosition(buildings[j])
             /\ ~Reported(buildings[i]) /\ ~Reported(buildings[j]))
            => ~FootprintsIntersect(drawn[i], drawn[j])

\* C11: an evaluation leaves the placement list as it was passed (same
\* length, order and fields), and any two evaluations made so far on equal
\* lists have equal results, whatever was evaluated between them.
C11_EvaluationIsPure ==
    [][Evaluation =>
         /\ buildings' = buildings
         /\ evaluations'[Len(evaluations')].buildings = buildings
         /\ \A i, j \in 1..Len(evaluations') :
                evaluations'[i].buildings = evaluations'[j].buildings
                => evaluations'[i].result = evaluations'[j].result]_vars

\* three evaluations: the first and the third on the same list, which holds
\* a placement without width and depth, the second on another list with
\* another result
C11_Witness ==
    /\ Len(evaluations) = 3
    /\ evaluations[1].buildings = evaluations[3].buildings
    /\ evaluations[2].buildings # evaluations[1].buildings
    /\ evaluations[2].result # evaluations[1].result
    /\ \E k \in 1..Len(buildings) : ~Has(buildings[k], "width")
    /\ buildings = evaluations[3].buildings

\* C12: generation is deterministic: when a run of the generator has
\* finished, every earlier finished run on the same configuration produced a
\* primitive sequence of the same length with equal dimensions, position
\* and colour at every index.
C12_GenerationDeterministic ==
    pc = "done" =>
        \A r \in 1..Len(generated) :
            /\ Len(generated[r]) = Len(scene)
            /\ \A k \in 1..Len(scene) :
                   LET p == generated[r][k]
                       q == scene[k]
                   IN  /\ p.w = q.w /\ p.h = q.h /\ p.d = q.d
                       /\ p.x = q.x /\ p.y = q.y /\ p.z = q.z
                       /\ p.color = q.color

\* the second run on a two-floor configuration with columns has finished
C12_Witness ==
    /\ pc = "done"
    /\ Len(generated) = 1
    /\ buildingConfig.numFloors = 2
    /\ buildingConfig.base.columns.enabled
    /\ Len(scene) > 0
    /\ Len(generated[1]) > 0

====
